---- MODULE Spec2Model ----
(***************************************************************************)
(* A model of blackjack.py: the session loop of game(), the bet prompt,    *)
(* the deck, hand valuation, the player and dealer phases, resolution and  *)
(* the save file.  Console input is a nondeterministic choice from small   *)
(* sets of typed lines; random.shuffle is a nondeterministic choice from   *)
(* a bounded family of permutations of the 52 cards.                       *)
(***************************************************************************)
EXTENDS Integers, Sequences, FiniteSets, TLC

VARIABLES
    pc,           \* position of the single control flow
    file,         \* contents of blackjack_save.json
    money,        \* game(): money
    stats,        \* game(): stats
    bet,          \* game(): bet, as returned by get_bet
    deck,         \* game(): deck, drawn from its end
    player_hand,  \* game(): player_hand
    dealer_hand,  \* game(): dealer_hand
    pt_bet,       \* player_turn(): its local bet, returned as final_bet
    can_double,   \* player_turn(): can_double
    surrendered,  \* game(): surrendered, as returned by player_turn
    move,         \* player_turn(): move, the last line read at its prompt
    rounds,       \* number of rounds completed in this session
    arg,          \* argument of a function evaluated on its own
    res           \* its result

vars == <<pc, file, money, stats, bet, deck, player_hand, dealer_hand,
          pt_bet, can_double, surrendered, move, rounds, arg, res>>

(***************************************************************************)
(* Bounds of the model.                                                    *)
(***************************************************************************)
MaxRounds == 2
NumShuffles == 12
MaxStartMoney == 2
SmallBet == 1
MaxHandLen == 3

(***************************************************************************)
(* Cards and the deck.                                                     *)
(***************************************************************************)
HEARTS == "hearts"

DIAMONDS == "diamonds"

SPADES == "spades"

CLUBS == "clubs"

SuitOrder == <<HEARTS, DIAMONDS, SPADES, CLUBS>>

RankOrder == <<"2", "3", "4", "5", "6", "7", "8", "9", "10", "J", "Q", "K", "A">>

Ranks == {RankOrder[i] : i \in 1..Len(RankOrder)}

Suits == {SuitOrder[i] : i \in 1..Len(SuitOrder)}

\* int(rank) for the ranks built from range(2, 11)
RankInt(rank) ==
    CASE rank = "2" -> 2 [] rank = "3" -> 3 [] rank = "4" -> 4
      [] rank = "5" -> 5 [] rank = "6" -> 6 [] rank = "7" -> 7
      [] rank = "8" -> 8 [] rank = "9" -> 9 [] rank = "10" -> 10

\* the deck built with the first suit on every card
BuildDeckOneSuit ==
    [i \in 1..(Len(SuitOrder) * Len(RankOrder)) |->
        <<RankOrder[((i - 1) % Len(RankOrder)) + 1], SuitOrder[1]>>]

\* the deck of get_deck before the shuffle: suit by suit, 2..10 then J Q K A
BuildDeck ==
    [i \in 1..(Len(SuitOrder) * Len(RankOrder)) |->
        <<RankOrder[((i - 1) % Len(RankOrder)) + 1],
          SuitOrder[((i - 1) \div Len(RankOrder)) + 1]>>]

\* the random stream behind one shuffle
NextRand(x) == (x * 2967 + 12345) % 65537

Swap(seq, i, j) == [seq EXCEPT ![i] = seq[j], ![j] = seq[i]]

RECURSIVE ShuffleFrom(_, _, _)
\* random.shuffle: for i from the last index down to the second,
\* exchange x[i] with x[j] for a random j <= i
ShuffleFrom(seq, i, x) ==
    IF i <= 1 THEN seq
    ELSE ShuffleFrom(Swap(seq, i, (NextRand(x) % i) + 1), i - 1, NextRand(x))

Shuffle(seq, seed) == ShuffleFrom(seq, Len(seq), seed * 7919)

ShuffledDecks == [s \in 1..NumShuffles |-> Shuffle(BuildDeck, s)]

\* the ranks from the lowest card value up
RankByValue == <<"A", "2", "3", "4", "5", "6", "7", "8", "9", "10", "J", "Q", "K">>

\* the outcome of the shuffle that deals the low cards first: the four aces
\* are drawn first, then the twos, and so on
LowFirstDeck ==
    [i \in 1..Len(BuildDeck) |->
        LET k == Len(BuildDeck) - i
        IN  <<RankByValue[(k \div Len(SuitOrder)) + 1],
              SuitOrder[(k % Len(SuitOrder)) + 1]>>]

\* get_deck: the shuffled decks the model draws from
get_deck == {ShuffledDecks[s] : s \in 1..NumShuffles} \cup {LowFirstDeck}

\* list.pop(): the last element, and the list without it
Top(d) == d[Len(d)]

Rest(d) == SubSeq(d, 1, Len(d) - 1)

(***************************************************************************)
(* Hand valuation.                                                         *)
(***************************************************************************)
RECURSIVE NonAceSum(_)
NonAceSum(hand) ==
    IF hand = <<>> THEN 0
    ELSE LET rank == Top(hand)[1]
         IN  NonAceSum(Rest(hand)) +
             (IF rank = "A" THEN 0
              ELSE IF rank \in {"J", "Q", "K"} THEN 10
              ELSE RankInt(rank))

AceCount(hand) == Cardinality({i \in 1..Len(hand) : hand[i][1] = "A"})

RECURSIVE PromoteStrict(_, _)
\* the second loop with < 21 for <= 21
PromoteStrict(value, n) ==
    IF n = 0 THEN value
    ELSE PromoteStrict(IF value + 10 < 21 THEN value + 10 ELSE value, n - 1)

RECURSIVE Promote(_, _)
\* the second loop: once per ace, add 10 if that keeps the value <= 21
Promote(value, n) ==
    IF n = 0 THEN value
    ELSE Promote(IF value + 10 <= 21 THEN value + 10 ELSE value, n - 1)

RECURSIVE ValueInOrder(_, _)
ValueInOrder(hand, value) ==
    IF hand = <<>> THEN value
    ELSE LET rank == Head(hand)[1]
         IN  ValueInOrder(Tail(hand),
                 value + (IF rank = "A" THEN (IF value + 11 <= 21 THEN 11 ELSE 1)
                          ELSE IF rank \in {"J", "Q", "K"} THEN 10
                          ELSE RankInt(rank)))

\* a valuation that settles each ace when it is met
get_hand_value_in_order(hand) == ValueInOrder(hand, 0)

get_hand_value(hand) ==
    Promote(NonAceSum(hand) + AceCount(hand), AceCount(hand))

(***************************************************************************)
(* The save file.  A JSON object is the sequence of its members; a file    *)
(* is absent, unreadable as JSON, or holds an object.                      *)
(***************************************************************************)
NoFile == [exists |-> FALSE, json |-> FALSE, members |-> <<>>]

BadFile == [exists |-> TRUE, json |-> FALSE, members |-> <<>>]

JsonFile(members) == [exists |-> TRUE, json |-> TRUE, members |-> members]

\* a save that leaves out the pushes
save_game_no_pushes(m, s) ==
    [exists |-> TRUE, json |-> TRUE,
     members |-> <<<<"money", m>>, <<"wins", s.wins>>, <<"losses", s.losses>>>>]

save_game(m, s) ==
    JsonFile(<<<<"money", m>>, <<"wins", s.wins>>,
               <<"losses", s.losses>>, <<"pushes", s.pushes>>>>)

\* dict.get(key, default) on the parsed object (the last member of a name wins)
Get(members, key, default) ==
    LET at == {i \in 1..Len(members) : members[i][1] = key}
    IN  IF at = {} THEN default
        ELSE members[CHOOSE i \in at : \A j \in at : j <= i][2]

DefaultMoney == 5000

DefaultStats == [wins |-> 0, losses |-> 0, pushes |-> 0]

\* load_game with 0 for a missing money
load_game_missing_money_zero(f) ==
    IF f.exists
    THEN [money |-> Get(f.members, "money", 0),
          stats |-> [wins |-> Get(f.members, "wins", 0),
                     losses |-> Get(f.members, "losses", 0),
                     pushes |-> Get(f.members, "pushes", 0)]]
    ELSE [money |-> DefaultMoney, stats |-> DefaultStats]

\* load_game on a file that is absent or parses
load_game(f) ==
    IF f.exists
    THEN [money |-> Get(f.members, "money", DefaultMoney),
          stats |-> [wins |-> Get(f.members, "wins", 0),
                     losses |-> Get(f.members, "losses", 0),
                     pushes |-> Get(f.members, "pushes", 0)]]
    ELSE [money |-> DefaultMoney, stats |-> DefaultStats]

(***************************************************************************)
(* Typed lines.  A line is a sequence of characters; the prompts apply     *)
(* strip() and upper() to it.                                              *)
(***************************************************************************)
DigitChars == <<"0", "1", "2", "3", "4", "5", "6", "7", "8", "9">>

\* one character, U+00B2 SUPERSCRIPT TWO: a digit to str.isdigit(), but no
\* decimal digit, so int() raises ValueError on it
SuperscriptTwo == "sup2"

IsDecimalChar(c) == \E i \in 1..Len(DigitChars) : DigitChars[i] = c

IsDigitChar(c) == IsDecimalChar(c) \/ c = SuperscriptTwo

DigitVal(c) == (CHOOSE i \in 1..Len(DigitChars) : DigitChars[i] = c) - 1

RECURSIVE StripLeft(_)
StripLeft(line) ==
    IF line /= <<>> /\ Head(line) = " " THEN StripLeft(Tail(line)) ELSE line

RECURSIVE StripRight(_)
StripRight(line) ==
    IF line /= <<>> /\ Top(line) = " " THEN StripRight(Rest(line)) ELSE line

Strip(line) == StripRight(StripLeft(line))

UpperChar(c) ==
    CASE c = "h" -> "H" [] c = "s" -> "S" [] c = "d" -> "D" [] c = "u" -> "U"
      [] c = "q" -> "Q" [] c = "i" -> "I" [] c = "t" -> "T" [] c = "x" -> "X"
      [] OTHER -> c

Upper(line) == [i \in 1..Len(line) |-> UpperChar(line[i])]

\* str.isdigit(): not empty and every character a digit
IsDigit(line) == line /= <<>> /\ \A i \in 1..Len(line) : IsDigitChar(line[i])

\* int() returns a value for a line that str.isdigit() passed
IntAccepts(line) == \A i \in 1..Len(line) : IsDecimalChar(line[i])

RECURSIVE ParseInt(_)
\* int() of a line of digits
ParseInt(line) ==
    IF line = <<>> THEN 0
    ELSE 10 * ParseInt(Rest(line)) + DigitVal(Top(line))

RECURSIVE Numeral(_)
\* the decimal numeral a user types for n
Numeral(n) ==
    IF n < 10 THEN <<DigitChars[n + 1]>>
    ELSE Numeral(n \div 10) \o <<DigitChars[(n % 10) + 1]>>

QUIT == <<"Q", "U", "I", "T">>

\* the lines tried at the bet prompt when the bankroll is max_bet
BetLines(max_bet) ==
    {Numeral(n) : n \in (0..SmallBet) \cup
                        {max_bet \div 2, (max_bet \div 2) + 1, max_bet, max_bet + 1}}
    \cup {QUIT, <<" ", "q", "u", "i", "t">>, <<"x">>, <<>>, <<"-", "1">>,
          <<"0", "1">>, <<"1", " ">>, <<"1", "x">>, <<SuperscriptTwo>>}

\* the lines tried at the move prompt
MoveLines ==
    {<<"H">>, <<"h", " ">>, <<"S">>, <<"s">>, <<"D">>, <<" ", "d">>,
     <<"S", "U">>, <<"s", "u">>, <<"X">>, <<>>, <<"H", "S">>, <<"1">>}

(***************************************************************************)
(* Decisions of player_turn, dealer_turn and resolve_game.                 *)
(***************************************************************************)
\* the loop-head test with < for <=
OutOfFundsBelowZero(m) == m < 0

\* game(): the test at the loop head
OutOfFunds(m) == m <= 0

\* can_double without the test of the bankroll
CanDoubleAnyFunds(player, m, b) == Len(player) = 2

\* player_turn: can_double, computed before the loop
CanDouble(player, m, b) == Len(player) = 2 /\ m >= 2 * b

\* the bust test after a hit with >= for >
HitBustsAt21(player) == get_hand_value(player) >= 21

\* player_turn: the bust test after a hit
HitBusts(player) == get_hand_value(player) > 21

\* bet += 2 for bet *= 2
DoubledBetPlusTwo(b) == b + 2

\* player_turn: bet *= 2
DoubledBet(b) == b * 2

\* dealer_turn without its early return
PlayerBustIgnored(player) == FALSE

\* dealer_turn: the test for its early return
PlayerBust(player) == get_hand_value(player) > 21

\* the dealer loop testing a value that its draws never change
DealerDrawsForever(dealer) == TRUE

\* the dealer loop with <= for <
DealerDrawsOn17(dealer) == get_hand_value(dealer) <= 17

\* dealer_turn: the loop condition
DealerDraws(dealer) == get_hand_value(dealer) < 17

\* the surrender penalty rounded up
SurrenderCostRoundedUp(final_bet) == (final_bet + 1) \div 2

\* game(): the surrender penalty
SurrenderCost(final_bet) == final_bet \div 2

\* resolve_game with a push left uncounted
ResolveValuesPushUncounted(player_val, dealer_val, b, m, s) ==
    IF player_val > 21
    THEN [money |-> m - b, stats |-> [s EXCEPT !.losses = @ + 1]]
    ELSE IF dealer_val > 21
    THEN [money |-> m + b, stats |-> [s EXCEPT !.wins = @ + 1]]
    ELSE IF player_val > dealer_val
    THEN [money |-> m + b, stats |-> [s EXCEPT !.wins = @ + 1]]
    ELSE IF player_val < dealer_val
    THEN [money |-> m - b, stats |-> [s EXCEPT !.losses = @ + 1]]
    ELSE [money |-> m, stats |-> s]

\* resolve_game with the bust tests at >= 21
ResolveValuesBustAt21(player_val, dealer_val, b, m, s) ==
    IF player_val >= 21
    THEN [money |-> m - b, stats |-> [s EXCEPT !.losses = @ + 1]]
    ELSE IF dealer_val >= 21
    THEN [money |-> m + b, stats |-> [s EXCEPT !.wins = @ + 1]]
    ELSE IF player_val > dealer_val
    THEN [money |-> m + b, stats |-> [s EXCEPT !.wins = @ + 1]]
    ELSE IF player_val < dealer_val
    THEN [money |-> m - b, stats |-> [s EXCEPT !.losses = @ + 1]]
    ELSE [money |-> m, stats |-> [s EXCEPT !.pushes = @ + 1]]

\* resolve_game on the two hand values
ResolveValues(player_val, dealer_val, b, m, s) ==
    IF player_val > 21
    THEN [money |-> m - b, stats |-> [s EXCEPT !.losses = @ + 1]]
    ELSE IF dealer_val > 21
    THEN [money |-> m + b, stats |-> [s EXCEPT !.wins = @ + 1]]
    ELSE IF player_val > dealer_val
    THEN [money |-> m + b, stats |-> [s EXCEPT !.wins = @ + 1]]
    ELSE IF player_val < dealer_val
    THEN [money |-> m - b, stats |-> [s EXCEPT !.losses = @ + 1]]
    ELSE [money |-> m, stats |-> [s EXCEPT !.pushes = @ + 1]]

resolve_game(player, dealer, b, m, s) ==
    ResolveValues(get_hand_value(player), get_hand_value(dealer), b, m, s)

(***************************************************************************)
(* The session.                                                            *)
(***************************************************************************)
InitFiles ==
    {NoFile, BadFile, JsonFile(<<<<"wins", 1>>, <<"money", 1>>>>)}
    \cup {save_game(m, DefaultStats) : m \in 0..MaxStartMoney}

NoRound == /\ bet = 0 /\ pt_bet = 0 /\ can_double = FALSE /\ surrendered = FALSE
           /\ move = <<>>
           /\ deck = <<>> /\ player_hand = <<>> /\ dealer_hand = <<>>

Init ==
    /\ pc = "load_game"
    /\ file \in InitFiles
    /\ money = 0
    /\ stats = DefaultStats
    /\ NoRound
    /\ rounds = 0
    /\ arg = <<>>
    /\ res = <<>>

\* game(): money, stats = load_game()
LoadGame ==
    /\ pc = "load_game"
    /\ IF file.exists /\ ~file.json
       THEN /\ pc' = "crashed"
            /\ UNCHANGED <<money, stats>>
       ELSE /\ pc' = "loop"
            /\ money' = load_game(file).money
            /\ stats' = load_game(file).stats
    /\ UNCHANGED <<file, bet, deck, player_hand, dealer_hand, pt_bet,
                   can_double, surrendered, move, rounds, arg, res>>

\* game(): the loop head with money <= 0
OutOfMoney ==
    /\ pc = "loop"
    /\ OutOfFunds(money)
    /\ file' = save_game(money, stats)
    /\ pc' = "exit_broke"
    /\ UNCHANGED <<money, stats, bet, deck, player_hand, dealer_hand, pt_bet,
                   can_double, surrendered, move, rounds, arg, res>>

\* game(): the loop head with money > 0, up to the bet prompt
PromptBet ==
    /\ pc = "loop"
    /\ ~OutOfFunds(money)
    /\ pc' = "get_bet"
    /\ UNCHANGED <<file, money, stats, bet, deck, player_hand, dealer_hand,
                   pt_bet, can_double, surrendered, move, rounds, arg, res>>

\* get_bet: QUIT
BetQuit ==
    /\ pc = "get_bet"
    /\ \E line \in BetLines(money) :
          Upper(Strip(line)) = QUIT
    /\ pc' = "exit_quit"
    /\ UNCHANGED <<file, money, stats, bet, deck, player_hand, dealer_hand,
                   pt_bet, can_double, surrendered, move, rounds, arg, res>>

\* get_bet: a line that is not a number, or a number out of range
BetRejected ==
    /\ pc = "get_bet"
    /\ \E line \in BetLines(money) :
          LET choice == Upper(Strip(line))
          IN  /\ choice /= QUIT
              /\ IF ~IsDigit(choice) THEN TRUE
                 ELSE IF ~IntAccepts(choice) THEN FALSE
                 ELSE ~(1 <= ParseInt(choice) /\ ParseInt(choice) <= money)
    /\ UNCHANGED vars

\* get_bet: a line that isdigit() passes and int() raises on
BetRaises ==
    /\ pc = "get_bet"
    /\ \E line \in BetLines(money) :
          LET choice == Upper(Strip(line))
          IN  choice /= QUIT /\ IsDigit(choice) /\ ~IntAccepts(choice)
    /\ pc' = "crashed"
    /\ UNCHANGED <<file, money, stats, bet, deck, player_hand, dealer_hand,
                   pt_bet, can_double, surrendered, move, rounds, arg, res>>

\* get_bet returns; game() deals; player_turn is entered
PlaceBet ==
    /\ pc = "get_bet"
    /\ rounds < MaxRounds
    /\ \E line \in BetLines(money), d \in get_deck :
          LET choice == Upper(Strip(line))
              player == <<d[Len(d)], d[Len(d) - 1]>>
              dealer == <<d[Len(d) - 2], d[Len(d) - 3]>>
          IN  /\ choice /= QUIT
              /\ IsDigit(choice)
              /\ IntAccepts(choice)
              /\ 1 <= ParseInt(choice) /\ ParseInt(choice) <= money
              /\ bet' = ParseInt(choice)
              /\ pt_bet' = ParseInt(choice)
              /\ player_hand' = player
              /\ dealer_hand' = dealer
              /\ deck' = SubSeq(d, 1, Len(d) - 4)
              /\ can_double' = CanDouble(player, money, ParseInt(choice))
    /\ pc' = "player_turn"
    /\ UNCHANGED <<file, money, stats, surrendered, move, rounds, arg, res>>

Move(line) == Upper(Strip(line))

\* player_turn: move == 'SU'
IsSurrender(m) == m = <<"S", "U">>

\* player_turn: 'H'
Hit ==
    /\ pc = "player_turn"
    /\ \E line \in MoveLines : Move(line) = <<"H">> /\ move' = Move(line)
    /\ IF deck = <<>>
       THEN /\ pc' = "crashed"
            /\ UNCHANGED <<player_hand, deck>>
       ELSE /\ player_hand' = Append(player_hand, Top(deck))
            /\ deck' = Rest(deck)
            /\ pc' = IF HitBusts(player_hand')
                     THEN "dealer_turn" ELSE "player_turn"
    /\ UNCHANGED <<file, money, stats, bet, dealer_hand, pt_bet, can_double, surrendered,
                   rounds, arg, res>>

\* player_turn: 'S'
Stand ==
    /\ pc = "player_turn"
    /\ \E line \in MoveLines : Move(line) = <<"S">> /\ move' = Move(line)
    /\ pc' = "dealer_turn"
    /\ UNCHANGED <<file, money, stats, bet, deck, player_hand, dealer_hand,
                   pt_bet, can_double, surrendered, rounds, arg, res>>

\* player_turn: 'D' with can_double
DoubleDown ==
    /\ pc = "player_turn"
    /\ \E line \in MoveLines : Move(line) = <<"D">> /\ move' = Move(line)
    /\ can_double
    /\ IF deck = <<>>
       THEN /\ pc' = "crashed"
            /\ UNCHANGED <<player_hand, deck>>
       ELSE /\ player_hand' = Append(player_hand, Top(deck))
            /\ deck' = Rest(deck)
            /\ pc' = "dealer_turn"
    /\ pt_bet' = DoubledBet(pt_bet)
    /\ UNCHANGED <<file, money, stats, bet, dealer_hand, can_double, surrendered,
                   rounds, arg, res>>

\* player_turn: 'SU'; game() charges half the bet, counts a loss and saves
Surrender ==
    /\ pc = "player_turn"
    /\ \E line \in MoveLines : IsSurrender(Move(line)) /\ move' = Move(line)
    /\ money' = money - SurrenderCost(pt_bet)
    /\ stats' = [stats EXCEPT !.losses = @ + 1]
    /\ file' = save_game(money', stats')
    /\ surrendered' = TRUE
    /\ rounds' = rounds + 1
    /\ pc' = "continue"
    /\ UNCHANGED <<bet, deck, player_hand, dealer_hand, pt_bet, can_double,
                   arg, res>>

\* player_turn: any other line, and 'D' without can_double
OtherMove ==
    /\ pc = "player_turn"
    /\ \E line \in MoveLines :
          /\ Move(line) \notin {<<"H">>, <<"S">>}
          /\ ~(Move(line) = <<"D">> /\ can_double)
          /\ ~IsSurrender(Move(line))
          /\ move' = Move(line)
    /\ UNCHANGED <<pc, file, money, stats, bet, deck, player_hand, dealer_hand,
                   pt_bet, can_double, surrendered, rounds, arg, res>>

\* dealer_turn: the player is bust
DealerSkipped ==
    /\ pc = "dealer_turn"
    /\ PlayerBust(player_hand)
    /\ pc' = "resolve_game"
    /\ UNCHANGED <<file, money, stats, bet, deck, player_hand, dealer_hand,
                   pt_bet, can_double, surrendered, move, rounds, arg, res>>

\* dealer_turn: one pass of the loop
DealerDraw ==
    /\ pc = "dealer_turn"
    /\ ~PlayerBust(player_hand)
    /\ DealerDraws(dealer_hand)
    /\ IF deck = <<>>
       THEN /\ pc' = "crashed"
            /\ UNCHANGED <<dealer_hand, deck>>
       ELSE /\ dealer_hand' = Append(dealer_hand, Top(deck))
            /\ deck' = Rest(deck)
            /\ pc' = "dealer_turn"
    /\ UNCHANGED <<file, money, stats, bet, player_hand, pt_bet, can_double, surrendered, move,
                   rounds, arg, res>>

\* dealer_turn: the loop ends
DealerStands ==
    /\ pc = "dealer_turn"
    /\ ~PlayerBust(player_hand)
    /\ ~DealerDraws(dealer_hand)
    /\ pc' = "resolve_game"
    /\ UNCHANGED <<file, money, stats, bet, deck, player_hand, dealer_hand,
                   pt_bet, can_double, surrendered, move, rounds, arg, res>>

\* game(): money = resolve_game(...), then save_game
Resolve ==
    /\ pc = "resolve_game"
    /\ money' = resolve_game(player_hand, dealer_hand, pt_bet, money, stats).money
    /\ stats' = resolve_game(player_hand, dealer_hand, pt_bet, money, stats).stats
    /\ file' = save_game(money', stats')
    /\ rounds' = rounds + 1
    /\ pc' = "continue"
    /\ UNCHANGED <<bet, deck, player_hand, dealer_hand, pt_bet, can_double, surrendered, move,
                   arg, res>>

\* game(): "Press Enter to continue", then back to the loop head; the locals
\* of the round are not read again before the next round assigns them
Continue ==
    /\ pc = "continue"
    /\ pc' = "loop"
    /\ bet' = 0 /\ pt_bet' = 0 /\ can_double' = FALSE /\ surrendered' = FALSE
    /\ move' = <<>>
    /\ deck' = <<>> /\ player_hand' = <<>> /\ dealer_hand' = <<>>
    /\ UNCHANGED <<file, money, stats, rounds, arg, res>>

Next ==
    \/ LoadGame
    \/ OutOfMoney
    \/ PromptBet
    \/ BetQuit
    \/ BetRejected
    \/ BetRaises
    \/ PlaceBet
    \/ Hit
    \/ Stand
    \/ DoubleDown
    \/ Surrender
    \/ OtherMove
    \/ DealerSkipped
    \/ DealerDraw
    \/ DealerStands
    \/ Resolve
    \/ Continue

Spec == Init /\ [][Next]_vars

(***************************************************************************)
(* resolve_game on its own: every pair of hand values in 4..30.            *)
(***************************************************************************)
Idle ==
    /\ file = NoFile /\ money = 0 /\ stats = DefaultStats /\ NoRound
    /\ rounds = 0

InitResolve ==
    /\ pc = "resolve_call"
    /\ Idle
    /\ arg \in [player_val : 4..30, dealer_val : 4..30,
                bet : 1..(MaxStartMoney + 1), money : {MaxStartMoney + 1, DefaultMoney},
                stats : {DefaultStats, [wins |-> 1, losses |-> 2, pushes |-> 3]}]
    /\ res = <<>>

ResolveCall ==
    /\ pc = "resolve_call"
    /\ res' = ResolveValues(arg.player_val, arg.dealer_val, arg.bet,
                            arg.money, arg.stats)
    /\ pc' = "resolve_done"
    /\ UNCHANGED <<file, money, stats, bet, deck, player_hand, dealer_hand,
                   pt_bet, can_double, surrendered, move, rounds, arg>>

NextResolve == ResolveCall

SpecResolve == InitResolve /\ [][NextResolve]_vars

(***************************************************************************)
(* get_hand_value on its own: every hand of up to MaxHandLen cards, the    *)
(* card at position i taken from the i-th suit, and its reorderings.       *)
(***************************************************************************)
HandsOfLen(n) ==
    {[i \in 1..n |-> <<ranks[i], SuitOrder[((i - 1) % Len(SuitOrder)) + 1]>>] :
        ranks \in [1..n -> Ranks]}

InitValue ==
    /\ pc = "value_call"
    /\ Idle
    /\ \E n \in 0..MaxHandLen : arg \in HandsOfLen(n)
    /\ res = <<>>

ValueCall ==
    /\ pc = "value_call"
    /\ res' = get_hand_value(arg)
    /\ pc' = "value_done"
    /\ UNCHANGED <<file, money, stats, bet, deck, player_hand, dealer_hand,
                   pt_bet, can_double, surrendered, move, rounds, arg>>

\* the same cards with two neighbours exchanged, valued again
ValueReordered ==
    /\ pc = "value_done"
    /\ \E i \in 1..(Len(arg) - 1) :
          /\ arg' = Swap(arg, i, i + 1)
          /\ res' = get_hand_value(arg')
    /\ UNCHANGED <<pc, file, money, stats, bet, deck, player_hand, dealer_hand,
                   pt_bet, can_double, surrendered, move, rounds>>

NextValue == ValueCall \/ ValueReordered

SpecValue == InitValue /\ [][NextValue]_vars

(***************************************************************************)
(* The session with the dealer's loop, which waits for no input, running   *)
(* to its end.                                                             *)
(***************************************************************************)
\* a session that starts from a save file with a small bankroll
InitLive == Init /\ file \in {save_game(m, DefaultStats) : m \in 1..MaxStartMoney}

LiveSpec ==
    InitLive /\ [][Next]_vars /\ WF_vars(DealerSkipped \/ DealerDraw \/ DealerStands)

(***************************************************************************)
(* Properties.                                                             *)
(***************************************************************************)
Bust(hand) == get_hand_value(hand) > 21

\* a step that ends a round: by surrender, or by resolve_game
RoundEnds == pc /= "continue" /\ pc' = "continue"

\* C1: in the player phase the bet is doubled only by a command given while
\* the hand has exactly two cards and the bankroll is at least twice the bet;
\* a double-down command on a longer hand changes neither bet nor hand.
C1_DoubleOnlyOnTwoCards ==
    [][pc = "player_turn" /\ pt_bet' /= pt_bet
          => Len(player_hand) = 2 /\ money >= 2 * pt_bet]_vars

\* C2: the bankroll of game() and the money in a written save file are
\* never negative, whatever the bets, decisions and shuffles.
C2_BankrollNeverNegative ==
    /\ money >= 0
    /\ file.exists /\ file.json => Get(file.members, "money", 0) >= 0

C2_Witness ==
    /\ pc = "continue"
    /\ rounds = 2
    /\ pt_bet = 2 * bet
    /\ money = 0
    /\ file = save_game(0, stats)

\* C3: a step that ends a round adds 1 to exactly one of wins, losses and
\* pushes and leaves the other two alone (a surrender adds to losses), and
\* no other step of the session changes the counters.
C3_OneCounterPerRound ==
    [][/\ RoundEnds =>
            /\ rounds' = rounds + 1
            /\ \/ stats' = [stats EXCEPT !.wins = @ + 1]
               \/ stats' = [stats EXCEPT !.losses = @ + 1]
               \/ stats' = [stats EXCEPT !.pushes = @ + 1]
            /\ stats'.wins + stats'.losses + stats'.pushes
                 = stats.wins + stats.losses + stats.pushes + 1
            /\ surrendered' => stats'.losses = stats.losses + 1
       /\ ~RoundEnds /\ pc /= "load_game" => stats' = stats /\ rounds' = rounds]_vars

C3_Witness ==
    /\ pc = "continue"
    /\ rounds = 2
    /\ stats.wins + stats.losses + stats.pushes = 3
    /\ stats.pushes = 1
    /\ surrendered

\* the outcomes of the resolution table, each by its own condition
IsLoss(pv, dv) == pv > 21 \/ (dv <= 21 /\ pv < dv)

IsWin(pv, dv) == pv <= 21 /\ (dv > 21 \/ pv > dv)

IsPush(pv, dv) == pv <= 21 /\ dv <= 21 /\ pv = dv

\* C4: for every pair of values in 4..30 resolve_game applies exactly one
\* outcome, in the priority player bust, dealer bust, higher, lower, equal:
\* a loss takes the bet and counts a loss, a win pays the bet once and
\* counts a win, a push changes only pushes.
C4_ResolutionTable ==
    pc = "resolve_done" =>
        LET pv == arg.player_val
            dv == arg.dealer_val
        IN  /\ Cardinality({o \in {"loss", "win", "push"} :
                              \/ o = "loss" /\ IsLoss(pv, dv)
                              \/ o = "win" /\ IsWin(pv, dv)
                              \/ o = "push" /\ IsPush(pv, dv)}) = 1
            /\ IsLoss(pv, dv) =>
                  /\ res.money = arg.money - arg.bet
                  /\ res.stats = [arg.stats EXCEPT !.losses = @ + 1]
            /\ IsWin(pv, dv) =>
                  /\ res.money = arg.money + arg.bet
                  /\ res.stats = [arg.stats EXCEPT !.wins = @ + 1]
            /\ IsPush(pv, dv) =>
                  /\ res.money = arg.money
                  /\ res.stats = [arg.stats EXCEPT !.pushes = @ + 1]

C4_Witness ==
    /\ pc = "resolve_done"
    /\ arg.player_val = 21
    /\ arg.dealer_val = 22
    /\ arg.bet = 2
    /\ res.money = arg.money + 2
    /\ res.stats.wins = arg.stats.wins + 1

\* the value of one card with an ace counted as 1
LowValue(card) ==
    IF card[1] = "A" THEN 1
    ELSE IF card[1] \in {"J", "Q", "K"} THEN 10
    ELSE 1 + CHOOSE i \in 1..Len(RankOrder) : RankOrder[i] = card[1]

RECURSIVE LowTotalUpTo(_, _)
LowTotalUpTo(hand, n) ==
    IF n = 0 THEN 0 ELSE LowTotalUpTo(hand, n - 1) + LowValue(hand[n])

LowTotal(hand) == LowTotalUpTo(hand, Len(hand))

\* the totals of a hand over every way of counting its aces as 1 or 11
Totals(hand) ==
    {LowTotal(hand) + 10 * Cardinality(high) :
        high \in SUBSET {i \in 1..Len(hand) : hand[i][1] = "A"}}

BestTotal(hand) ==
    IF \E t \in Totals(hand) : t <= 21
    THEN CHOOSE t \in Totals(hand) :
            t <= 21 /\ \A u \in Totals(hand) : u <= 21 => u <= t
    ELSE LowTotal(hand)

RanksOf(hand) == [i \in 1..Len(hand) |-> hand[i][1]]

\* C5: get_hand_value is the largest total of the hand that does not exceed
\* 21 over the ways of counting each ace as 1 or 11, and the total with every
\* ace as 1 when there is none; at most one ace counts as 11.
C5_BestTotal ==
    pc = "value_done" =>
        /\ res = BestTotal(arg)
        /\ res - LowTotal(arg) \in {0, 10}
        /\ RanksOf(arg) = <<"A", "A">> => res = 12
        /\ RanksOf(arg) = <<"A", "A", "9">> => res = 21

C5_Witness ==
    /\ pc = "value_done"
    /\ RanksOf(arg) = <<"A", "A", "9">>
    /\ res = 21

\* C6: get_hand_value gives the same value after any reordering of the
\* cards of the hand.
C6_OrderInvariant ==
    [][pc = "value_done" /\ pc' = "value_done" => res' = res]_vars

C6_Witness ==
    /\ pc = "value_done"
    /\ RanksOf(arg) = <<"5", "A", "K">>
    /\ arg[1][2] = SPADES
    /\ res = 16

\* C7: in the dealer phase the dealer draws one card at a time, and only
\* from a hand valued under 17; the phase ends, and when it has ended the
\* dealer's value is between 17 and 26.
C7_DealerPolicy ==
    /\ [][pc = "dealer_turn" /\ dealer_hand' /= dealer_hand
             => /\ get_hand_value(dealer_hand) < 17
                /\ dealer_hand' = Append(dealer_hand, Top(deck))
                /\ deck' = Rest(deck)]_vars
    /\ [](pc = "resolve_game" /\ ~Bust(player_hand)
             => get_hand_value(dealer_hand) \in 17..26)
    /\ (pc = "dealer_turn" ~> pc = "resolve_game")

C7_Witness ==
    /\ pc = "resolve_game"
    /\ ~Bust(player_hand)
    /\ Len(dealer_hand) >= 3
    /\ get_hand_value(dealer_hand) = 17

\* C8: a surrender takes floor(bet / 2) of the bet placed for the round from
\* the bankroll, adds 1 to losses and to no other counter, and goes straight
\* to the end of the round: the dealer draws nothing and nothing is resolved.
C8_SurrenderCost ==
    [][pc = "player_turn" /\ pc' = "continue"
          => /\ \E half \in 0..bet :
                   /\ 2 * half <= bet /\ bet < 2 * half + 2
                   /\ money' = money - half
             /\ stats' = [stats EXCEPT !.losses = @ + 1]
             /\ surrendered'
             /\ dealer_hand' = dealer_hand /\ Len(dealer_hand) = 2
             /\ deck' = deck /\ player_hand' = player_hand]_vars

C8_Witness ==
    /\ pc = "continue"
    /\ surrendered
    /\ bet = 2501
    /\ money = DefaultMoney - 1250
    /\ stats.losses = 1
    /\ Len(player_hand) >= 3

\* the session is over
Ended == pc \in {"exit_broke", "exit_quit", "crashed"}

\* C9: at the loop head a bankroll <= 0 saves the state and ends the session,
\* so the bankroll is positive whenever a bet is prompted for or a round is
\* in play; once loaded, the session ends only there or by QUIT at the bet
\* prompt.
C9_OutOfFundsEndsSession ==
    /\ [](pc \in {"get_bet", "player_turn", "dealer_turn", "resolve_game"}
             => money > 0)
    /\ [](pc = "exit_broke" => money <= 0 /\ file = save_game(money, stats))
    /\ [][pc = "loop" /\ money <= 0 => pc' = "exit_broke"]_vars
    /\ [][pc /= "load_game" /\ ~Ended /\ Ended'
             => \/ pc = "loop" /\ money <= 0 /\ pc' = "exit_broke"
                \/ pc = "get_bet" /\ pc' = "exit_quit"]_vars

C9_Witness ==
    /\ pc = "exit_broke"
    /\ rounds = 2
    /\ money = 0
    /\ stats.wins = 1

\* C10: once a round has been completed, the save file holds the bankroll
\* and the counters of game() at every point up to and including the next
\* bet prompt and a QUIT read there, and QUIT writes nothing.
C10_SavedAfterEveryRound ==
    /\ [](rounds >= 1 /\ pc \in {"continue", "loop", "get_bet", "exit_quit"}
             => /\ file.exists /\ file.json
                /\ load_game(file) = [money |-> money, stats |-> stats])
    /\ [][pc = "get_bet" /\ pc' = "exit_quit" => file' = file]_vars

C10_Witness ==
    /\ pc = "exit_quit"
    /\ rounds = 2
    /\ stats.pushes = 1
    /\ stats.wins = 1
    /\ load_game(file) = [money |-> money, stats |-> stats]

\* C11: a save file that is present but cannot be read as a record counts
\* as no save: load_game gives money 5000 and counters 0 and the session
\* reaches its loop.
C11_BadSaveFallsBack ==
    [][pc = "load_game" /\ file.exists /\ ~file.json
          => /\ pc' = "loop"
             /\ money' = DefaultMoney
             /\ stats' = DefaultStats]_vars

(***************************************************************************)
(* save_game and load_game on their own: a record is saved and loaded      *)
(* back, or a file that was there before is loaded: none, or an object     *)
(* holding any subset of the four fields.                                  *)
(***************************************************************************)
Fields == {"money", "wins", "losses", "pushes"}

\* the object with only the members named in keys
Only(members, keys) ==
    LET Kept(member) == member[1] \in keys
    IN  SelectSeq(members, Kept)

Records ==
    [money : (0..MaxStartMoney) \cup {777, DefaultMoney},
     stats : [wins : 0..MaxStartMoney, losses : 0..MaxStartMoney,
              pushes : 0..MaxStartMoney]]

EarlierFiles ==
    {NoFile} \cup
    {JsonFile(Only(save_game(777, [wins |-> 3, losses |-> 2, pushes |-> 1]).members,
                   keys)) : keys \in SUBSET Fields}

InitPersist ==
    /\ pc = "persist_call"
    /\ file \in EarlierFiles
    /\ money = 0 /\ stats = DefaultStats /\ NoRound /\ rounds = 0
    /\ arg \in Records
    /\ res = <<>>

\* save_game(money, stats)
SaveCall ==
    /\ pc = "persist_call"
    /\ file' = save_game(arg.money, arg.stats)
    /\ pc' = "saved"
    /\ UNCHANGED <<money, stats, bet, deck, player_hand, dealer_hand, pt_bet,
                   can_double, surrendered, move, rounds, arg, res>>

\* load_game() after the save
LoadSaved ==
    /\ pc = "saved"
    /\ res' = load_game(file)
    /\ pc' = "reloaded"
    /\ UNCHANGED <<file, money, stats, bet, deck, player_hand, dealer_hand,
                   pt_bet, can_double, surrendered, move, rounds, arg>>

\* load_game() of the file that was there before
LoadEarlier ==
    /\ pc = "persist_call"
    /\ res' = load_game(file)
    /\ pc' = "loaded"
    /\ UNCHANGED <<file, money, stats, bet, deck, player_hand, dealer_hand,
                   pt_bet, can_double, surrendered, move, rounds, arg>>

NextPersist == SaveCall \/ LoadSaved \/ LoadEarlier

SpecPersist == InitPersist /\ [][NextPersist]_vars

HasField(f, key) == f.exists /\ \E i \in 1..Len(f.members) : f.members[i][1] = key

FieldOf(f, key) ==
    f.members[CHOOSE i \in 1..Len(f.members) : f.members[i][1] = key][2]

\* C12: a record saved and then loaded comes back identical; with no save
\* file load_game gives money 5000 and counters 0; a field missing from the
\* saved object gets its default and a field present keeps its value.
C12_SaveLoadRoundTrip ==
    /\ pc = "reloaded" => res = arg
    /\ pc = "loaded" =>
          /\ res.money = IF HasField(file, "money")
                         THEN FieldOf(file, "money") ELSE 5000
          /\ \A key \in {"wins", "losses", "pushes"} :
                LET got == CASE key = "wins" -> res.stats.wins
                             [] key = "losses" -> res.stats.losses
                             [] key = "pushes" -> res.stats.pushes
                IN  got = IF HasField(file, key) THEN FieldOf(file, key) ELSE 0

C12_Witness ==
    /\ pc = "reloaded"
    /\ arg = [money |-> 777, stats |-> [wins |-> 2, losses |-> 1, pushes |-> 2]]
    /\ res = arg
    /\ file = save_game(777, arg.stats)

\* double-down is permitted: the hand has two cards and the bankroll covers
\* twice the bet
DoublePermitted == Len(player_hand) = 2 /\ money >= 2 * pt_bet

\* the step reads a line that is a hit, stand or surrender command, or a
\* double-down command while double-down is permitted
ReadsCommand ==
    \/ move' \in {<<"H">>, <<"S">>, <<"S", "U">>}
    \/ move' = <<"D">> /\ DoublePermitted

\* C13: in the player phase a line that is no hit, stand or surrender
\* command and no permitted double-down command leaves both hands, the
\* deck, the bet, the bankroll and the counters as they were, and the phase
\* goes on.
C13_OtherLineChangesNothing ==
    [][pc = "player_turn" /\ ~ReadsCommand
          => /\ pc' = "player_turn"
             /\ UNCHANGED <<player_hand, dealer_hand, deck, bet, pt_bet,
                            money, stats, file>>]_vars

\* C14: a round is dealt only with a bet from 1 to the bankroll; any other
\* line at the bet prompt, unless it quits, leaves the bankroll and the
\* counters as they were with the prompt shown again.
C14_BetInRangeOrRejected ==
    [][pc = "get_bet"
          => /\ pc' \in {"get_bet", "player_turn", "exit_quit"}
             /\ UNCHANGED <<money, stats, file>>
             /\ pc' = "player_turn" => 1 <= bet' /\ bet' <= money]_vars

\* C15: once the player has hit in the round, a surrender command no longer
\* ends the round with the half-bet penalty: it is acted on only as the first
\* decision of the player phase.
HasHit == Len(player_hand) > 2

C15_SurrenderOnlyFirstDecision ==
    [][pc = "player_turn" /\ HasHit /\ IsSurrender(move')
          => /\ pc' = "player_turn"
             /\ UNCHANGED <<money, stats, file>>]_vars

\* C16: when the player busts (by a hit or by doubling) or surrenders, the
\* dealer draws nothing: its hand at the end of the round is the two cards it
\* was dealt, and a bust round is resolved as a loss of the final bet.  The
\* first two conjuncts are written by contraposition: a dealer hand that is
\* not two cards, or a step that changes it, belongs to a round in which the
\* player is neither bust nor surrendered.
NoDealerPhase == Bust(player_hand) \/ surrendered

C16_BustOrSurrenderSkipsDealer ==
    /\ [](pc = "continue" /\ Len(dealer_hand) /= 2 => ~NoDealerPhase)
    /\ [][(pc \in {"player_turn", "dealer_turn", "resolve_game"})
             /\ dealer_hand' /= dealer_hand => ~NoDealerPhase']_vars
    /\ [][pc = "resolve_game" /\ Bust(player_hand)
             => /\ money' = money - pt_bet
                /\ stats' = [stats EXCEPT !.losses = @ + 1]]_vars

C16_Witness ==
    /\ pc = "continue"
    /\ Bust(player_hand)
    /\ pt_bet = 2 * bet
    /\ Len(dealer_hand) = 2
    /\ get_hand_value(dealer_hand) < 17
    /\ stats.losses = 1

\* C17: a hit appends exactly one card, taken from the deck, to the player's
\* hand and leaves the bet as it was; a value over 21 ends the player phase
\* and the player draws nothing more in the round; any other value, 21
\* included, leaves the phase waiting for another decision.
IsHit == pc = "player_turn" /\ move' = <<"H">>

C17_HitDrawsOneCard ==
    /\ [][IsHit => /\ player_hand' = Append(player_hand, Top(deck))
                   /\ deck' = Rest(deck)
                   /\ UNCHANGED <<bet, pt_bet, dealer_hand, money, stats>>
                   /\ pc' = IF get_hand_value(player_hand') > 21
                            THEN "dealer_turn" ELSE "player_turn"]_vars
    /\ [][Bust(player_hand) /\ pc' /= "loop" => UNCHANGED player_hand]_vars

C17_Witness ==
    /\ pc = "player_turn"
    /\ move = <<"H">>
    /\ Len(player_hand) >= 3
    /\ get_hand_value(player_hand) = 21

\* C18: an accepted double-down doubles the bet, draws exactly one card into
\* the player's hand and ends the player phase whatever the value; the bet is
\* doubled at most once, so the final bet is the placed bet or twice it, and
\* the player draws nothing after doubling.
IsDouble == pc = "player_turn" /\ move' = <<"D">> /\ can_double

Doubled == pt_bet /= bet

C18_DoubleOnceOneCard ==
    /\ [](pt_bet \in {bet, 2 * bet})
    /\ [][IsDouble => /\ pt_bet' = 2 * pt_bet
                      /\ player_hand' = Append(player_hand, Top(deck))
                      /\ deck' = Rest(deck)
                      /\ pc' = "dealer_turn"]_vars
    /\ [][pc = "player_turn" /\ pt_bet' /= pt_bet => IsDouble /\ ~Doubled]_vars
    /\ [][Doubled /\ pc' /= "loop" => UNCHANGED <<player_hand, pt_bet>>]_vars

C18_Witness ==
    /\ pc = "continue"
    /\ Doubled
    /\ Len(player_hand) = 3
    /\ get_hand_value(player_hand) < 17
    /\ stats.wins = 1

\* C19: a fresh deck holds each of the 52 (rank, suit) pairs once; at every
\* point of a round the player's hand, the dealer's hand and the deck are
\* pairwise disjoint and together are those 52 cards; a hand changes only by
\* one card appended to it, and never shrinks.
AllCards == Ranks \X Suits

CardsOf(seq) == {seq[i] : i \in 1..Len(seq)}

InRound == pc \in {"player_turn", "dealer_turn", "resolve_game", "continue"}

Conserved ==
    /\ Len(deck) + Len(player_hand) + Len(dealer_hand) = 52
    /\ Cardinality(AllCards) = 52
    /\ CardsOf(deck) \cup CardsOf(player_hand) \cup CardsOf(dealer_hand) = AllCards

\* h2 is h, or h with one card appended
GrowsByOne(h, h2) ==
    \/ h2 = h
    \/ Len(h2) = Len(h) + 1 /\ SubSeq(h2, 1, Len(h)) = h

C19_CardConservation ==
    /\ [](InRound => Conserved)
    /\ [][InRound /\ InRound'
             => /\ GrowsByOne(player_hand, player_hand')
                /\ GrowsByOne(dealer_hand, dealer_hand')
                /\ Len(deck') <= Len(deck)]_vars
    /\ [][pc = "get_bet" /\ InRound'
             => Len(player_hand') = 2 /\ Len(dealer_hand') = 2]_vars

C19_Witness ==
    /\ pc = "continue"
    /\ Len(player_hand) >= 4
    /\ Len(dealer_hand) >= 4
    /\ Conserved

\* C20: no draw is attempted on an empty deck: whatever the shuffle and the
\* player's decisions, the deal, the player's draws and the dealer's draws
\* never use up the 52 cards.
Drawing == pc \in {"player_turn", "dealer_turn"}

C20_DeckNeverExhausted ==
    /\ [](Drawing => deck /= <<>>)
    /\ [][Drawing => pc' /= "crashed"]_vars

C20_Witness ==
    /\ pc = "continue"
    /\ ~surrendered
    /\ Len(player_hand) + Len(dealer_hand) >= 12
    /\ deck /= <<>>

====
